---- MODULE Spec2Model ----
(***************************************************************************)
(* A model of ferminet_tum.driver.NNQS: the local-energy kernel            *)
(* (calc_local_energy_kernel), the batch evaluation by jax.lax.scan        *)
(* (calc_local_energies) and the training loop (train).                    *)
(*                                                                         *)
(* Numbers are IEEE-like values over exact rationals: a finite rational,   *)
(* NaN, +inf or -inf.  Rounding is not represented.  An array is a shape   *)
(* together with the one value all its elements hold (a constant-filled    *)
(* array), so that element-wise arithmetic and numpy broadcasting are      *)
(* modelled as they act.  A parameter tree maps leaf names to arrays.      *)
(* PRNG keys are numbered so that splitting is injective.                  *)
(***************************************************************************)
EXTENDS Integers, Sequences, FiniteSets, TLC

\* ------------------------------------------------------------------ bounds
MaxIters == 2
MaxBatch == 2
MaxRootSeed == 3

\* ------------------------------------------------------------------ numbers
RECURSIVE GCD(_, _)
GCD(a, b) == IF b = 0 THEN a ELSE GCD(b, a % b)

Abs(n) == IF n < 0 THEN 0 - n ELSE n

\* a finite value n/d in lowest terms, d > 0
Fin(n, d) ==
  LET g == GCD(Abs(n), d)
  IN  [k |-> "fin", n |-> n \div g, d |-> d \div g]

Int2V(n) == [k |-> "fin", n |-> n, d |-> 1]
NaN == [k |-> "nan", n |-> 0, d |-> 1]
PosInf == [k |-> "inf", n |-> 1, d |-> 1]
NegInf == [k |-> "inf", n |-> 0 - 1, d |-> 1]
\* the largest finite float (jnp.finfo(dtype).max) and its negation
FloatMax == [k |-> "max", n |-> 1, d |-> 1]
FloatMin == [k |-> "max", n |-> 0 - 1, d |-> 1]

IsNaN(x) == x.k = "nan"
IsInf(x) == x.k = "inf"
IsFinite(x) == x.k = "fin"
Sign(x) == IF x.n > 0 THEN 1 ELSE IF x.n < 0 THEN 0 - 1 ELSE 0
InfOf(s) == IF s > 0 THEN PosInf ELSE NegInf

\* x + y
VAdd(x, y) ==
  IF IsNaN(x) \/ IsNaN(y) THEN NaN
  ELSE IF IsInf(x) /\ IsInf(y) THEN (IF x.n = y.n THEN x ELSE NaN)
  ELSE IF IsInf(x) THEN x
  ELSE IF IsInf(y) THEN y
  ELSE Fin(x.n * y.d + y.n * x.d, x.d * y.d)

\* x * y
VMul(x, y) ==
  IF IsNaN(x) \/ IsNaN(y) THEN NaN
  ELSE IF IsInf(x) \/ IsInf(y)
       THEN (IF Sign(x) = 0 \/ Sign(y) = 0 THEN NaN ELSE InfOf(Sign(x) * Sign(y)))
  ELSE Fin(x.n * y.n, x.d * y.d)

\* x - y
VSub(x, y) == VAdd(x, VMul(Int2V(0 - 1), y))

\* x / b for a positive integer b
VDivInt(x, b) ==
  IF IsFinite(x) THEN Fin(x.n, x.d * b) ELSE x

\* jnp.nan_to_num with its defaults (faulty variant: the call left out)
NanToNum_Identity(x) == x

NanToNum(x) ==
  IF IsNaN(x) THEN Int2V(0)
  ELSE IF IsInf(x) THEN (IF x.n > 0 THEN FloatMax ELSE FloatMin)
  ELSE x

\* ------------------------------------------------------------------ arrays
Max2(a, b) == IF a >= b THEN a ELSE b

\* the dimension of shape s that is aligned with position j of a rank-r result
DimAt(s, j, r) == IF j <= r - Len(s) THEN 1 ELSE s[j - (r - Len(s))]

BroadcastOK(s, t) ==
  LET r == Max2(Len(s), Len(t))
  IN  \A j \in 1..r :
        \/ DimAt(s, j, r) = DimAt(t, j, r)
        \/ DimAt(s, j, r) = 1
        \/ DimAt(t, j, r) = 1

BroadcastShape(s, t) ==
  LET r == Max2(Len(s), Len(t))
  IN  [j \in 1..r |-> Max2(DimAt(s, j, r), DimAt(t, j, r))]

Arr(shape, v) == [shape |-> shape, v |-> v]

\* x + y on arrays
AAdd(x, y) == Arr(BroadcastShape(x.shape, y.shape), VAdd(x.v, y.v))
\* x * c, x / b for a scalar c and an integer b
AScale(x, c) == Arr(x.shape, VMul(x.v, c))
ADivInt(x, b) == Arr(x.shape, VDivInt(x.v, b))

\* ------------------------------------------------------------------ trees
Leaves == {"w_alpha", "omega"}

TreeShape(t) == [l \in DOMAIN t |-> t[l].shape]

\* jax.tree_util.tree_map(lambda x: x * 0, params)
ZerosLike(t) == [l \in DOMAIN t |-> AScale(t[l], Int2V(0))]

\* jax.tree_util.tree_map(lambda x, y: x + y, sum_O, next_O)
AccumulateO(sum_O, next_O) ==
  [l \in DOMAIN sum_O |-> AAdd(sum_O[l], next_O[l])]

\* jax.tree_util.tree_map(lambda x, y: x + y * local_energy, sum, next_O)
AccumulateOE(sum_OE, next_O, local_energy) ==
  [l \in DOMAIN sum_OE |-> AAdd(sum_OE[l], AScale(next_O[l], local_energy))]

\* jax.tree_util.tree_map(lambda x: x / self.batch_size, tree)
TreeDiv(t, b) == [l \in DOMAIN t |-> ADivInt(t[l], b)]

\* jnp.nan_to_num(x - y * E) on one leaf (faulty variant: the mean energy left out)
GradLeaf_NoMeanEnergy(x, y, E) == Arr(x.shape, NanToNum(VSub(x.v, y.v)))

GradLeaf(x, y, E) ==
  Arr(BroadcastShape(x.shape, y.shape), NanToNum(VSub(x.v, VMul(y.v, E))))

\* jax.tree_util.tree_map(lambda x, y: jnp.nan_to_num(x - y * E), O_times_E, O)
GradientEstimate(O_times_E, O_mean, E_mean) ==
  [l \in DOMAIN O_times_E |-> GradLeaf(O_times_E[l], O_mean[l], E_mean)]

\* ------------------------------------------------------------------ PRNG keys
\* jax.random.PRNGKey(0)
PRNGKey0 == 0

\* jax.random.split(key): two keys, distinct from each other and from the
\* halves of every other key
Split(key) == <<2 * key + 1, 2 * key + 2>>

\* the seeds calc_local_energies is called with when called directly
RootSeeds == 0..MaxRootSeed

\* ------------------------------------------------------------------ collaborators
\* NetParams.init: every leaf finite
InitParams ==
  [l \in Leaves |->
     IF l = "w_alpha" THEN Arr(<<2>>, Int2V(1)) ELSE Arr(<<1>>, Int2V(1))]

\* The leaf shapes of the statistic tree a sampler returns.  jit and scan trace
\* the kernel once, so they are the same at every step of a run.
SamplerShapes ==
  { [l \in Leaves |-> IF l = "w_alpha" THEN <<2>> ELSE <<1>>],   \* as the parameters
    [l \in Leaves |-> <<1>>],                                     \* w_alpha too small
    [l \in Leaves |-> <<2>>],                                     \* omega too large
    [l \in Leaves |-> IF l = "w_alpha" THEN <<3>> ELSE <<1>>],   \* w_alpha too large
    [l \in {"w_alpha"} |-> <<2>>] }                               \* omega missing

\* the element values of the statistic tree of one step
SamplerValues ==
  { [l \in Leaves |-> IF l = "w_alpha" THEN Int2V(1) ELSE Int2V(0)],
    [l \in Leaves |-> IF l = "w_alpha" THEN Int2V(0 - 2) ELSE Int2V(1)] }

\* the local energies a Hamiltonian returns
EnergyValues == {Int2V(1), Int2V(3), NaN, PosInf}

\* the updates an optimizer returns: a finite step, or a divergent one
OptimizerUpdates ==
  { [l \in Leaves |-> Arr(InitParams[l].shape, Int2V(0 - 1))],
    [l \in Leaves |-> Arr(InitParams[l].shape,
                          IF l = "w_alpha" THEN PosInf ELSE Int2V(0 - 1))] }

\* optax.apply_updates(params, updates)
ApplyUpdates(p, u) == [l \in DOMAIN p |-> AAdd(p[l], u[l])]

\* Sampler.next_sample: a new configuration, its log-amplitude, the statistic
NextSample(cfg, k, shapes, vals) ==
  [ walker_cfg |-> <<cfg[1], k>>,
    log_psi    |-> [of |-> <<cfg[1], k>>, by |-> "next_sample"],
    O          |-> [l \in DOMAIN shapes |-> Arr(shapes[l], vals[l])] ]

\* FermiNet.apply(params, walker_cfg)
ApplyNet(cfg) == [of |-> cfg, by |-> "apply"]

\* ------------------------------------------------------------------ the kernel
\* subseed, seed = jax.random.split(seed): the half carried to the next step
\* (faulty variant: the half given to the sampler is carried too)
KernelCarriedSeed_Reused(carry) == Split(carry.seed)[2]

KernelCarriedSeed(carry) == Split(carry.seed)[1]

\* ... and the half given to Sampler.next_sample
KernelSamplerSeed(carry) == Split(carry.seed)[2]

\* the configuration Hamiltonian.calc_local_energy is called at
\* (faulty variant: the energy is taken after the move)
EnergyConfig_AfterMove(carry, next) == next.walker_cfg

EnergyConfig(carry, next) == carry.walker_cfg

\* the log-amplitude of the new carry
NextLogPsi(carry, next) == next.log_psi

\* calc_local_energy_kernel: the new carry and the emitted local energy
calc_local_energy_kernel(carry, local_energy, next) ==
  [ carry |-> [ log_psi    |-> NextLogPsi(carry, next),
                params     |-> carry.params,
                walker_cfg |-> next.walker_cfg,
                sum_O      |-> AccumulateO(carry.sum_O, next.O),
                sum_O_times_local_energy |->
                  AccumulateOE(carry.sum_O_times_local_energy, next.O, local_energy),
                seed       |-> KernelCarriedSeed(carry) ],
    y |-> local_energy ]

\* ------------------------------------------------------------------ the scan
\* the carry calc_local_energies starts the scan with
InitCarry(init_log_psi, p, init_walker_cfg, seed) ==
  [ log_psi    |-> init_log_psi,
    params     |-> p,
    walker_cfg |-> init_walker_cfg,
    sum_O      |-> ZerosLike(p),
    sum_O_times_local_energy |-> ZerosLike(p),
    seed       |-> seed ]

\* What tracing the kernel under jax.lax.scan raises: tree_map refuses trees of
\* different structure, + refuses shapes that do not broadcast, and scan refuses
\* a carry whose type changes.  Anything else is accepted.
ScanTraceError(c, shapes) ==
  IF DOMAIN shapes # DOMAIN c.sum_O THEN "ValueError"
  ELSE IF \E l \in DOMAIN shapes : ~BroadcastOK(c.sum_O[l].shape, shapes[l])
       THEN "TypeError"
  ELSE IF \E l \in DOMAIN shapes :
            BroadcastShape(c.sum_O[l].shape, shapes[l]) # c.sum_O[l].shape
       THEN "TypeError"
  ELSE "ok"

\* the carry jax.lax.scan hands to the next step (faulty variant: the carry is not threaded)
ScanCarry_NotThreaded(old, new) == old

ScanCarry(old, new) == new

\* jnp.sum(local_energies)
RECURSIVE SumSeq(_)
SumSeq(s) == IF s = <<>> THEN Int2V(0) ELSE VAdd(SumSeq(SubSeq(s, 1, Len(s) - 1)), s[Len(s)])

\* ------------------------------------------------------------------ state
VARIABLES
  entry,            \* the method called: "train" or "calc_local_energies"
  plt_bound,        \* whether the module global plt, which driver.py never imports, is bound
  n_iters,          \* train's n_iters
  batch_size,       \* self.batch_size
  sampler_shapes,   \* the leaf shapes of the sampler's statistic tree
  pc,               \* where the call stands
  err,              \* the exception raised, "" when none
  params, opt_state, key, i, Es, walker_cfg, log_psi,   \* train's locals
  seed_arg,         \* the seed calc_local_energies is called with
  carry, step, local_energies,                          \* the scan's state
  E, O, O_times_local_energy, grad_L,                   \* the batch's results
  seed_log,         \* history: every seed handed to a collaborator, in order
  split_log,        \* history: every key jax.random.split was applied to
  kernel_log        \* history: the kernel steps of the current batch

vars ==
  << entry, plt_bound, n_iters, batch_size, sampler_shapes, pc, err, params,
     opt_state, key, i, Es, walker_cfg, log_psi, seed_arg, carry, step,
     local_energies, E, O, O_times_local_energy, grad_L, seed_log, split_log,
     kernel_log >>

\* values of locals that are not bound yet
NoTree == [l \in {} |-> Arr(<<>>, NaN)]
NoCfg == <<0 - 1, 0 - 1>>
NoCarry == InitCarry(ApplyNet(NoCfg), NoTree, NoCfg, PRNGKey0)
NoValue == [k |-> "none", n |-> 0, d |-> 1]

conf == << entry, plt_bound, n_iters, batch_size, sampler_shapes >>
batch_locals == << carry, step, local_energies, E, O, O_times_local_energy >>

Init ==
  /\ entry \in {"train", "calc_local_energies"}
  /\ batch_size \in 1..MaxBatch
  /\ sampler_shapes \in SamplerShapes
  /\ IF entry = "train"
     THEN /\ n_iters \in 1..MaxIters
          /\ plt_bound \in BOOLEAN
          /\ seed_arg = PRNGKey0
          /\ walker_cfg = NoCfg
          /\ log_psi = ApplyNet(NoCfg)
     ELSE /\ n_iters = 0
          /\ plt_bound = FALSE
          /\ seed_arg \in RootSeeds
          /\ walker_cfg = <<0, 0>>
          /\ log_psi = ApplyNet(<<0, 0>>)
  /\ pc = entry
  /\ err = ""
  /\ params = InitParams
  /\ opt_state = 0
  /\ key = PRNGKey0
  /\ i = 0
  /\ Es = <<>>
  /\ carry = NoCarry
  /\ step = 0
  /\ local_energies = <<>>
  /\ E = NoValue
  /\ O = NoTree
  /\ O_times_local_energy = NoTree
  /\ grad_L = NoTree
  /\ seed_log = <<>>
  /\ split_log = <<>>
  /\ kernel_log = <<>>

\* for i in range(n_iters): the next iteration, or the return
LoopNext(j) == IF j < n_iters THEN "SampleWalkers" ELSE "Done"

\* train, up to the loop: optimizer.init, jax.jit, plt.subplots, Es, key
train_setup ==
  /\ pc = "train"
  /\ IF plt_bound
     THEN /\ opt_state' = 0
          /\ Es' = <<>>
          /\ key' = PRNGKey0
          /\ i' = 0
          /\ pc' = LoopNext(0)
          /\ err' = err
     ELSE /\ pc' = "raised"
          /\ err' = "NameError"
          /\ UNCHANGED << opt_state, Es, key, i >>
  /\ UNCHANGED << conf, params, walker_cfg, log_psi, seed_arg, batch_locals,
                  grad_L, seed_log, split_log, kernel_log >>

\* the iteration's walkers and their log-amplitude, then the call of
\* calc_local_energies, which is given no seed and so takes its default
train_sample_walkers ==
  /\ pc = "SampleWalkers"
  /\ LET key1 == Split(key)[2]
         key2 == Split(key1)[2]
     IN  /\ walker_cfg' = <<i, 0>>
         /\ log_psi' = ApplyNet(<<i, 0>>)
         /\ key' = key2
         /\ seed_log' = Append(seed_log,
                          [who |-> "init_walker_config", seed |-> key1, iter |-> i])
         /\ split_log' = split_log \o <<key, key1>>
  /\ seed_arg' = PRNGKey0
  /\ pc' = "calc_local_energies"
  /\ UNCHANGED << conf, err, params, opt_state, i, Es, batch_locals, grad_L,
                  kernel_log >>

\* calc_local_energies, up to the first step: the carry is built and scan traces
\* the kernel, which raises what the trace raises
calc_local_energies_begin ==
  /\ pc = "calc_local_energies"
  /\ LET c == InitCarry(log_psi, params, walker_cfg, seed_arg)
         e == ScanTraceError(c, sampler_shapes)
     IN  IF e = "ok"
         THEN /\ carry' = c
              /\ pc' = "scan"
              /\ err' = err
         ELSE /\ carry' = carry
              /\ pc' = "raised"
              /\ err' = e
  /\ step' = 0
  /\ local_energies' = <<>>
  /\ kernel_log' = <<>>
  /\ UNCHANGED << conf, params, opt_state, key, i, Es, walker_cfg, log_psi,
                  seed_arg, E, O, O_times_local_energy, grad_L, seed_log,
                  split_log >>

\* one step of the scan: the Hamiltonian's energy, the sampler's move, the kernel
scan_step ==
  /\ pc = "scan"
  /\ step < batch_size
  /\ \E local_energy \in EnergyValues, vals \in SamplerValues :
       LET next == NextSample(carry.walker_cfg, step + 1, sampler_shapes, vals)
           out  == calc_local_energy_kernel(carry, local_energy, next)
       IN  /\ carry' = ScanCarry(carry, out.carry)
           /\ local_energies' = Append(local_energies, out.y)
           /\ kernel_log' = Append(kernel_log,
                [ in |-> carry, out |-> out.carry, y |-> out.y, next |-> next,
                  energy_params |-> carry.params,
                  energy_cfg |-> EnergyConfig(carry, next),
                  sampler_seed |-> KernelSamplerSeed(carry) ])
           /\ seed_log' = Append(seed_log,
                [who |-> "next_sample", seed |-> KernelSamplerSeed(carry), iter |-> i])
           /\ split_log' = Append(split_log, carry.seed)
  /\ step' = step + 1
  /\ UNCHANGED << conf, pc, err, params, opt_state, key, i, Es, walker_cfg,
                  log_psi, seed_arg, E, O, O_times_local_energy, grad_L >>

\* calc_local_energies, after the scan: the batch means
calc_local_energies_end ==
  /\ pc = "scan"
  /\ step = batch_size
  /\ E' = VDivInt(SumSeq(local_energies), batch_size)
  /\ O' = TreeDiv(carry.sum_O, batch_size)
  /\ O_times_local_energy' = TreeDiv(carry.sum_O_times_local_energy, batch_size)
  /\ pc' = IF entry = "train" THEN "Accumulate" ELSE "returned"
  /\ UNCHANGED << conf, err, params, opt_state, key, i, Es, walker_cfg, log_psi,
                  seed_arg, carry, step, local_energies, grad_L, seed_log,
                  split_log, kernel_log >>

\* the gradient of the iteration
train_gradient ==
  /\ pc = "Accumulate"
  /\ grad_L' = GradientEstimate(O_times_local_energy, O, E)
  /\ pc' = "UpdateParameters"
  /\ UNCHANGED << conf, err, params, opt_state, key, i, Es, walker_cfg, log_psi,
                  seed_arg, batch_locals, seed_log, split_log, kernel_log >>

\* optimizer.update, optax.apply_updates, Es.append(E), and the loop's next turn.
\* The iteration's other locals are dead from here on (each is assigned again
\* before it is read) and are cleared.
train_update ==
  /\ pc = "UpdateParameters"
  /\ \E updates \in OptimizerUpdates : params' = ApplyUpdates(params, updates)
  /\ opt_state' = opt_state + 1
  /\ Es' = Append(Es, E)
  /\ i' = i + 1
  /\ pc' = LoopNext(i + 1)
  /\ walker_cfg' = NoCfg
  /\ log_psi' = ApplyNet(NoCfg)
  /\ carry' = NoCarry
  /\ step' = 0
  /\ local_energies' = <<>>
  /\ E' = NoValue
  /\ O' = NoTree
  /\ O_times_local_energy' = NoTree
  /\ grad_L' = NoTree
  /\ kernel_log' = <<>>
  /\ UNCHANGED << conf, err, key, seed_arg, seed_log, split_log >>

Next ==
  \/ train_setup
  \/ train_sample_walkers
  \/ calc_local_energies_begin
  \/ scan_step
  \/ calc_local_energies_end
  \/ train_gradient
  \/ train_update

Spec == Init /\ [][Next]_vars

\* ------------------------------------------------------------------ properties
\* the states in which calc_local_energies has returned its batch means
BatchDone == pc \in {"Accumulate", "UpdateParameters", "returned"}
\* the states in which the scan is running or has run
InBatch == pc = "scan" \/ BatchDone

Steps == DOMAIN kernel_log

\* the mean of a sequence of values, summed from its head
RECURSIVE SumFromHead(_)
SumFromHead(s) == IF s = <<>> THEN Int2V(0) ELSE VAdd(s[1], SumFromHead(Tail(s)))
MeanOf(s) == VDivInt(SumFromHead(s), Len(s))

\* what the steps of the batch emitted and were given
StepEnergies == [j \in Steps |-> kernel_log[j].y]
StepO(l) == [j \in Steps |-> kernel_log[j].next.O[l].v]
StepOTimesE(l) == [j \in Steps |-> VMul(kernel_log[j].next.O[l].v, kernel_log[j].y)]

\* O_times_E[leaf] - O[leaf] * E, before any replacement
RawGrad(l) == VSub(O_times_local_energy[l].v, VMul(O[l].v, E))

\* C1: over a whole run of train no seed is used twice: the seeds handed to
\* init_walker_config and to Sampler.next_sample are pairwise distinct, and a
\* seed that has been consumed is never split again.
C1_NoSeedReuse ==
  entry = "train" =>
    /\ \A a, b \in DOMAIN seed_log :
         a # b => seed_log[a].seed # seed_log[b].seed
    /\ \A a \in DOMAIN seed_log, b \in DOMAIN split_log :
         seed_log[a].seed # split_log[b]

\* C2: within one call of calc_local_energies, for every root seed, the seeds
\* given to Sampler.next_sample are pairwise distinct, and the seed consumed by
\* a step is never the seed carried into the next step or a later one.
C2_BatchSeedsDistinct ==
  InBatch =>
    /\ \A a, b \in Steps :
         a < b => /\ kernel_log[a].sampler_seed # kernel_log[b].sampler_seed
                  /\ kernel_log[a].sampler_seed # kernel_log[b].in.seed
    /\ \A a \in Steps :
         /\ kernel_log[a].sampler_seed # kernel_log[a].out.seed
         /\ kernel_log[a].sampler_seed # carry.seed
         /\ kernel_log[a].sampler_seed \in {Split(kernel_log[a].in.seed)[1],
                                            Split(kernel_log[a].in.seed)[2]}

C2_Witness ==
  /\ pc = "returned"
  /\ seed_arg = MaxRootSeed
  /\ batch_size = MaxBatch
  /\ Len(kernel_log) = MaxBatch

\* the batch in which the Hamiltonian returned NaN for exactly one sample and
\* finite energies for all others, with its gradient computed
OneNaNBatch ==
  /\ pc = "UpdateParameters"
  /\ Cardinality({j \in Steps : IsNaN(kernel_log[j].y)}) = 1
  /\ \A j \in Steps : IsNaN(kernel_log[j].y) \/ IsFinite(kernel_log[j].y)

\* C3, as claimed: a NaN of one sample is contained in the leaf it affects, so
\* that some leaf of the gradient is unaffected: it is not a replaced NaN but
\* the computed O_times_E[leaf] - O[leaf] * E.
C3_Original ==
  OneNaNBatch =>
    \E l \in DOMAIN grad_L : ~IsNaN(RawGrad(l)) /\ grad_L[l].v = RawGrad(l)

\* C3, amended: a NaN of one sample makes E NaN and O_times_E NaN in every
\* leaf, so every leaf of the gradient is a replaced NaN: the whole gradient
\* handed to the optimizer is zero and no leaf is left unaffected.
C3_NaNZeroesWholeGradient ==
  OneNaNBatch =>
    /\ IsNaN(E)
    /\ DOMAIN grad_L = Leaves
    /\ \A l \in Leaves :
         /\ IsNaN(O_times_local_energy[l].v)
         /\ IsNaN(RawGrad(l))
         /\ grad_L[l].v = Int2V(0)

C3_Witness ==
  /\ OneNaNBatch
  /\ batch_size >= 2
  /\ \A l \in Leaves : IsFinite(params[l].v)
  /\ \E l \in Leaves : \A j \in Steps : kernel_log[j].next.O[l].v = Int2V(0)
                                         \/ ~IsNaN(kernel_log[j].y)

\* C4: calc_local_energies returns E equal to the mean of the emitted local
\* energies, O equal to the per-leaf mean of the per-step statistics and
\* O_times_E equal to the per-leaf mean of statistic times local energy.
C4_BatchMeans ==
  BatchDone =>
    /\ E = MeanOf(StepEnergies)
    /\ \A l \in DOMAIN O : O[l].v = MeanOf(StepO(l))
    /\ \A l \in DOMAIN O_times_local_energy :
         O_times_local_energy[l].v = MeanOf(StepOTimesE(l))

\* C5, as claimed: the gradient handed to the optimizer is
\* O_times_E[leaf] - O[leaf] * E with the NaN elements, and only those,
\* replaced by zero.
C5_Original ==
  pc = "UpdateParameters" =>
    \A l \in DOMAIN grad_L :
      grad_L[l].v = IF IsNaN(RawGrad(l)) THEN Int2V(0) ELSE RawGrad(l)

\* the same statistic at every step, and finite energies
ConstantStatistic ==
  /\ \A a, b \in Steps : kernel_log[a].next.O = kernel_log[b].next.O
  /\ \A a \in Steps : IsFinite(kernel_log[a].y)

\* C5, amended: the gradient handed to the optimizer is, in every leaf of the
\* parameter tree, O_times_E[leaf] - O[leaf] * E with NaN replaced by zero,
\* +inf by the largest finite float and -inf by its negation, so nothing
\* non-finite is handed to the optimizer; and it is zero when the sampler
\* returns the same statistic at every step and the energies are finite.
C5_GradientClamped ==
  pc = "UpdateParameters" =>
    /\ DOMAIN grad_L = DOMAIN params
    /\ \A l \in DOMAIN params :
         /\ grad_L[l].shape = params[l].shape
         /\ grad_L[l].v = CASE IsNaN(RawGrad(l)) -> Int2V(0)
                            [] RawGrad(l) = PosInf -> FloatMax
                            [] RawGrad(l) = NegInf -> FloatMin
                            [] OTHER -> RawGrad(l)
         /\ ~IsNaN(grad_L[l].v)
         /\ ~IsInf(grad_L[l].v)
         /\ ConstantStatistic => grad_L[l].v = Int2V(0)

C5_Witness ==
  /\ pc = "UpdateParameters"
  /\ \E l \in DOMAIN grad_L : IsInf(RawGrad(l)) /\ grad_L[l].v = FloatMax
  /\ \E l \in DOMAIN grad_L : IsNaN(RawGrad(l))

\* C6: train ends at Done and nowhere else, with one energy recorded per
\* iteration and n_iters optimizer updates applied.
C6_TrainReachesDone ==
  entry = "train" =>
    /\ pc # "raised"
    /\ Len(Es) = i
    /\ opt_state = i
    /\ pc = "Done" => Len(Es) = n_iters

\* C7: the scan runs the kernel batch_size times in sequence, each step
\* consuming the carry the step before produced (the first the initial carry),
\* and the trace holds the value each step emitted, in order.
C7_ScanSequential ==
  InBatch =>
    /\ Len(kernel_log) = step
    /\ step <= batch_size
    /\ BatchDone => step = batch_size
    /\ Len(local_energies) = step
    /\ \A j \in Steps : local_energies[j] = kernel_log[j].y
    /\ \A j \in Steps :
         kernel_log[j].in = IF j = 1
                            THEN InitCarry(log_psi, params, walker_cfg, seed_arg)
                            ELSE kernel_log[j - 1].out
    /\ step > 0 => carry = kernel_log[step].out

C7_Witness ==
  /\ BatchDone
  /\ batch_size = MaxBatch
  /\ Len(local_energies) = MaxBatch
  /\ local_energies[1] # local_energies[MaxBatch]

\* C8: when the sampler's statistic tree does not match the parameters in
\* structure or leaf shapes, the batch is aborted: no step accumulates the
\* tree, and no batch mean, energy record or parameter update comes of it.
C8_MismatchAborts ==
  sampler_shapes # TreeShape(params) =>
    /\ kernel_log = <<>>
    /\ ~BatchDone
    /\ Es = <<>>
    /\ opt_state = 0

\* C9: at the start of every batch sum_O and sum_O_times_E are all-zero trees
\* of the parameters' shape, whatever the parameter values; they keep that
\* shape at every step.
C9_AccumulatorsStartAtZero ==
  pc = "scan" =>
    /\ TreeShape(carry.sum_O) = TreeShape(params)
    /\ TreeShape(carry.sum_O_times_local_energy) = TreeShape(params)
    /\ step = 0 =>
         \A l \in DOMAIN params :
           /\ carry.sum_O[l].v = Int2V(0)
           /\ carry.sum_O_times_local_energy[l].v = Int2V(0)

\* C10: every step evaluates the local energy with the batch's parameters at
\* the configuration that entered the step: the initial configuration at the
\* first step, the sampler's last move later; the configuration of the last
\* move is never evaluated; the carried parameters never change, and the
\* carried log-amplitude is the one the sampler returned with the carried
\* configuration.
C10_EnergyAtEnteringConfig ==
  InBatch =>
    /\ carry.params = params
    /\ carry.log_psi.of = carry.walker_cfg
    /\ \A j \in Steps :
         /\ kernel_log[j].energy_params = params
         /\ kernel_log[j].in.params = params
         /\ kernel_log[j].energy_cfg =
              IF j = 1 THEN walker_cfg ELSE kernel_log[j - 1].next.walker_cfg
         /\ kernel_log[j].out.walker_cfg = kernel_log[j].next.walker_cfg
         /\ kernel_log[j].out.log_psi = kernel_log[j].next.log_psi
         /\ kernel_log[j].energy_cfg # kernel_log[Len(kernel_log)].next.walker_cfg

C10_Witness ==
  /\ BatchDone
  /\ Len(kernel_log) = MaxBatch
  /\ kernel_log[1].energy_cfg = walker_cfg
  /\ kernel_log[MaxBatch].energy_cfg = kernel_log[MaxBatch - 1].next.walker_cfg
  /\ carry.log_psi.by = "next_sample"

====
